---- MODULE Spec2Model ----
(***************************************************************************)
(* Two admin pages of the bnsn client:                                     *)
(*   UsersPage       src/client/src/app/admin/users/page.tsx               *)
(*   CategoriesPage  src/unnamed/part_000                                  *)
(* Each page is a React function component.  A step of the model is one    *)
(* event of the single UI thread: a user intent, a timer firing or the     *)
(* continuation of an awaited network call, together with the state        *)
(* updates it batches, the re-render and the effects that re-render runs.  *)
(***************************************************************************)
EXTENDS Integers, Sequences, FiniteSets, TLC

VARIABLES usersPage, categoriesPage

vars == <<usersPage, categoriesPage>>

(***************************************************************************)
(* Bounds of the model.                                                    *)
(***************************************************************************)
MaxInflight == 2
MaxMutations == 1
MaxEvents == 3
MaxCategoryEvents == 3

(***************************************************************************)
(* Inputs.                                                                 *)
(***************************************************************************)
Queries == {"", "a", "ab"}
UserIds == {"u1", "u2"}
UserLists == {<<>>, <<"u2", "u1">>}
PageSizes == {25, 50}
Pages == {1, 2}

\* What the server may answer to getUsers(page, itemsPerPage, search): any
\* list and any number of pages, of the size asked for; the page asked for,
\* or the last page when the page asked for is beyond it.
Min(a, b) == IF a <= b THEN a ELSE b
ServerPagination(data, currentPage, totalPages, itemsPerPage) ==
  [currentPage |-> currentPage, totalPages |-> totalPages,
   totalItems |-> IF totalPages = 1 THEN Len(data) ELSE 30,
   itemsPerPage |-> itemsPerPage]
ServerPages(req) ==
  {<<p, tp>> \in Pages \X Pages : p \in {req.page, Min(req.page, tp)}}
Responses(req) ==
  {[data |-> d,
    pagination |-> ServerPagination(d, pp[1], pp[2], req.itemsPerPage)] :
     d \in UserLists, pp \in ServerPages(req)}
AllResponses ==
  UNION {Responses([page |-> p, itemsPerPage |-> n]) :
           p \in Pages, n \in PageSizes}
Null == "null"
\* The response of a call that settles after teardown: nothing reads it.
Dropped == [data |-> <<>>]

RemoveAt(seq, i) == SubSeq(seq, 1, i - 1) \o SubSeq(seq, i + 1, Len(seq))
Range(seq) == {seq[i] : i \in DOMAIN seq}

(***************************************************************************)
(* UsersPage: state after the first render, before its effects have run.   *)
(*   timers     pending setTimeout handlers of useDebounce, oldest first   *)
(*   inflight   adminApi.getUsers calls not yet settled, oldest first;     *)
(*              then: the handler awaiting this loadUsers call             *)
(*   mutations  deleteUser / updateUser / register calls not yet settled;  *)
(*              loadUsers: the triple captured by the handler's closure    *)
(*   events     the number of user intents handled so far                  *)
(*   burst      the number of search inputs since a debounce timer fired   *)
(*   out        what the last step did: its event, the alert it raised,    *)
(*              the console.error it logged                                *)
(***************************************************************************)
UsersPageInit ==
  [phase |-> "init",
   users |-> <<>>,
   loading |-> TRUE,
   searchTerm |-> "",
   debouncedSearch |-> "",
   selectedUser |-> Null,
   showCreateModal |-> FALSE,
   showEditModal |-> FALSE,
   pagination |-> [currentPage |-> 1, totalPages |-> 1, totalItems |-> 0,
                   itemsPerPage |-> 25],
   timers |-> <<>>,
   inflight |-> <<>>,
   mutations |-> <<>>,
   events |-> 0,
   burst |-> 0,
   out |-> [ev |-> "render", alert |-> "none", log |-> "none"]]

Mounted(s) == s.phase = "mounted"

\* The dependency list of the loadUsers callback.
LoadUsersDeps(s) ==
  [page |-> s.pagination.currentPage,
   itemsPerPage |-> s.pagination.itemsPerPage,
   search |-> s.debouncedSearch]

\* React drops state updates of a component that is no longer mounted.
SetState(s, t) ==
  IF Mounted(s) THEN t
  ELSE [s EXCEPT !.inflight = t.inflight, !.mutations = t.mutations,
                 !.out = t.out]

\* Mutant: issuing a request aborts the requests in flight.
loadUsersAborting(s, deps, then) ==
  SetState(s, [s EXCEPT !.loading = TRUE,
                        !.inflight = <<[page |-> deps.page,
                                        itemsPerPage |-> deps.itemsPerPage,
                                        search |-> deps.search,
                                        then |-> then]>>])

\* try { setLoading(true); await adminApi.getUsers(page, itemsPerPage, search)
\* of the loadUsers closure that captured `deps`, awaited by handler `then`.
loadUsers(s, deps, then) ==
  SetState(s, [s EXCEPT !.loading = TRUE,
                        !.inflight = Append(@, [page |-> deps.page,
                                                itemsPerPage |-> deps.itemsPerPage,
                                                search |-> deps.search,
                                                then |-> then])])

\* Mutant: the cleanup leaves the pending timer.
clearTimeoutForgotten(timers) == timers

\* return () => clearTimeout(handler): the handler of the previous effect run
\* is the one scheduled last.
clearTimeout(timers) ==
  IF timers = <<>> THEN <<>> ELSE SubSeq(timers, 1, Len(timers) - 1)

\* useDebounce's effect, deps [value, delay].
useDebounceEffect(prev, s) ==
  IF prev.phase = "init" \/ s.searchTerm # prev.searchTerm
  THEN [s EXCEPT !.timers = Append(clearTimeout(@), s.searchTerm)]
  ELSE s

\* Mutant: the effect has no dependency list and runs after every render.
loadUsersEffectEveryRender(prev, s) == loadUsers(s, LoadUsersDeps(s), "none")

\* useEffect(() => { loadUsers(); }, [loadUsers]).
loadUsersEffect(prev, s) ==
  IF prev.phase = "init" \/ LoadUsersDeps(s) # LoadUsersDeps(prev)
  THEN loadUsers(s, LoadUsersDeps(s), "none")
  ELSE s

\* The re-render after a batch of state updates, and its effects.
Render(prev, s) ==
  IF Mounted(s) THEN loadUsersEffect(prev, useDebounceEffect(prev, s)) ELSE s

Emit(s, ev, alert) ==
  [s EXCEPT !.out = [ev |-> ev, alert |-> alert, log |-> "none"]]

\* A step of the users page from state `prev` to `next`, within the bounds.
UsersStep(next) ==
  /\ Len(next.inflight) <= MaxInflight
  /\ Len(next.mutations) <= MaxMutations
  /\ usersPage' = next
  /\ UNCHANGED categoriesPage

UserCanAct == Mounted(usersPage) /\ usersPage.events < MaxEvents

\* A modal is a fixed inset-0 overlay: while one is shown the page under it
\* takes no click or keystroke.
ModalShown(s) ==
  s.showCreateModal \/ (s.showEditModal /\ s.selectedUser # Null)
PageCanAct == UserCanAct /\ ~ModalShown(usersPage)

\* A user intent: the state updates `s` its handler batches, and the render.
UserEvent(s, ev, arg) ==
  UsersStep(Render(usersPage,
                   [s EXCEPT !.events = @ + 1,
                             !.out = [ev |-> ev, alert |-> "none",
                                      log |-> "none", arg |-> arg]]))

Mount ==
  /\ usersPage.phase = "init"
  /\ categoriesPage.phase = "init"
  /\ UsersStep(Render(usersPage,
                      Emit([usersPage EXCEPT !.phase = "mounted"], "mount", "none")))

\* Mutant: teardown leaves the pending timer.
UnmountKeepingTimer ==
  /\ Mounted(usersPage)
  /\ UsersStep(Emit([usersPage EXCEPT !.phase = "unmounted"],
                    "unmount", "none"))

\* Teardown runs the cleanup of useDebounce's effect.
Unmount ==
  /\ Mounted(usersPage)
  /\ UsersStep(Emit([usersPage EXCEPT !.phase = "unmounted",
                                      !.timers = clearTimeout(@)],
                    "unmount", "none"))

\* The Pagination component is rendered when !loading && totalPages > 1.
PaginationShown(s) == ~s.loading /\ s.pagination.totalPages > 1

setPage(s, page) == [s EXCEPT !.pagination.currentPage = page]

handlePageChange(page) ==
  /\ PageCanAct
  /\ PaginationShown(usersPage)
  /\ UserEvent(setPage(usersPage, page), "handlePageChange", page)

\* Mutant: the page size changes and the page stays.
setItemsPerPageKeepingPage(s, itemsPerPage) ==
  [s EXCEPT !.pagination.itemsPerPage = itemsPerPage]

setItemsPerPage(s, itemsPerPage) ==
  [s EXCEPT !.pagination.itemsPerPage = itemsPerPage,
            !.pagination.currentPage = 1]

handleItemsPerPageChange(itemsPerPage) ==
  /\ PageCanAct
  /\ PaginationShown(usersPage)
  /\ UserEvent(setItemsPerPage(usersPage, itemsPerPage),
               "handleItemsPerPageChange", itemsPerPage)

setSearch(s, value) ==
  [s EXCEPT !.searchTerm = value, !.pagination.currentPage = 1]

\* onChange of the controlled input: React raises it when the value differs
\* from the rendered one.
handleSearch(value) ==
  /\ PageCanAct
  /\ value # usersPage.searchTerm
  /\ UserEvent([setSearch(usersPage, value) EXCEPT !.burst = @ + 1],
               "handleSearch", value)

\* setTimeout(() => setDebounced(value), delay) fires.
setDebounced(s, i) ==
  [s EXCEPT !.debouncedSearch = s.timers[i], !.timers = RemoveAt(@, i)]

\* A timer that was not cleared fires; after teardown its state update is
\* dropped.
DebounceTimerFires(i) ==
  /\ i \in DOMAIN usersPage.timers
  /\ UsersStep(Render(usersPage,
       [(IF Mounted(usersPage) THEN setDebounced(usersPage, i)
         ELSE [usersPage EXCEPT !.timers = RemoveAt(@, i)]) EXCEPT
          !.burst = 0,
          !.out = [ev |-> "debounce", alert |-> "none", log |-> "none",
                   burst |-> usersPage.burst]]))

(***************************************************************************)
(* loadUsers after its await: the response of adminApi.getUsers.           *)
(***************************************************************************)
\* finally { setLoading(false); }
loadUsersFinally(s) == [s EXCEPT !.loading = FALSE]

\* Mutant: the response is merged into the list instead of replacing it.
loadUsersTryMerging(s, response) ==
  loadUsersFinally([s EXCEPT !.users = @ \o response.data,
                             !.pagination = response.pagination])

\* setUsers(response.data); setPagination(response.pagination);
loadUsersTry(s, response) ==
  loadUsersFinally([s EXCEPT !.users = response.data,
                             !.pagination = response.pagination])

\* Mutant: a failed load clears the list.
loadUsersCatchClearing(s) == loadUsersFinally([s EXCEPT !.users = <<>>])

\* catch (error) { console.error("Error loading users:", error); }
loadUsersCatch(s) == loadUsersFinally(s)

\* What the handler that awaited loadUsers() does next.
afterLoadUsers(s, then) ==
  CASE then = "create" -> [s EXCEPT !.showCreateModal = FALSE]
    [] then = "update" -> [s EXCEPT !.showEditModal = FALSE,
                                    !.selectedUser = Null]
    [] OTHER -> s

afterLoadUsersAlert(then) ==
  IF then = "create" THEN "User created successfully!" ELSE "none"

getUsersResolves(i, response) ==
  /\ usersPage.phase # "init"
  /\ i \in DOMAIN usersPage.inflight
  /\ response \in Responses(usersPage.inflight[i])
  /\ LET req == usersPage.inflight[i]
         s1 == [usersPage EXCEPT !.inflight = RemoveAt(@, i)]
         s2 == SetState(s1, afterLoadUsers(loadUsersTry(s1, response), req.then))
         s3 == [s2 EXCEPT !.out = [ev |-> "getUsersResolved",
                                   alert |-> afterLoadUsersAlert(req.then),
                                   log |-> "none", then |-> req.then,
                                   response |-> IF Mounted(s1) THEN response
                                                ELSE Dropped]]
     IN UsersStep(Render(usersPage, s3))

getUsersRejects(i) ==
  /\ usersPage.phase # "init"
  /\ i \in DOMAIN usersPage.inflight
  /\ LET req == usersPage.inflight[i]
         s1 == [usersPage EXCEPT !.inflight = RemoveAt(@, i)]
         s2 == SetState(s1, afterLoadUsers(loadUsersCatch(s1), req.then))
         s3 == [s2 EXCEPT !.out = [ev |-> "getUsersRejected",
                                   alert |-> afterLoadUsersAlert(req.then),
                                   log |-> "Error loading users:",
                                   then |-> req.then]]
     IN UsersStep(Render(usersPage, s3))

(***************************************************************************)
(* Modals and mutations.                                                   *)
(***************************************************************************)
\* The table rows (Edit, Delete buttons) are rendered when !loading.
RowShown(s, userId) == ~s.loading /\ userId \in Range(s.users)

handleEditUser(userId) ==
  /\ PageCanAct
  /\ RowShown(usersPage, userId)
  /\ UserEvent([usersPage EXCEPT !.selectedUser = userId,
                                  !.showEditModal = TRUE],
               "handleEditUser", userId)

EditModalShown(s) == s.showEditModal /\ s.selectedUser # Null

EditUserModalOnClose ==
  /\ UserCanAct
  /\ EditModalShown(usersPage)
  /\ UserEvent([usersPage EXCEPT !.showEditModal = FALSE,
                                  !.selectedUser = Null],
               "editOnClose", "none")

\* A mutation call is issued; the handler's closure holds the loadUsers of
\* the render it was created in.
callMutation(s, kind) ==
  [s EXCEPT !.mutations = Append(@, [kind |-> kind,
                                     loadUsers |-> LoadUsersDeps(s)])]

\* onSave: await adminApi.updateUser(selectedUser._id, updatedUser)
EditUserModalOnSave ==
  /\ UserCanAct
  /\ EditModalShown(usersPage)
  /\ UserEvent(callMutation(usersPage, "update"), "editOnSave", "none")

OpenCreateModal ==
  /\ PageCanAct
  /\ UserEvent([usersPage EXCEPT !.showCreateModal = TRUE], "openCreate", "none")

CreateUserModalOnClose ==
  /\ UserCanAct
  /\ usersPage.showCreateModal
  /\ UserEvent([usersPage EXCEPT !.showCreateModal = FALSE], "createOnClose", "none")

\* await fetch(".../api/auth/register", ...)
handleCreateUser ==
  /\ UserCanAct
  /\ usersPage.showCreateModal
  /\ UserEvent(callMutation(usersPage, "create"), "handleCreateUser", "none")

\* Mutant: the answer to the confirmation is ignored.
deleteUserUnconfirmed(s, confirmed) == callMutation(s, "delete")

\* if (confirm("Are you sure ...")) { await adminApi.deleteUser(userId) ...
deleteUserIfConfirmed(s, confirmed) ==
  IF confirmed THEN callMutation(s, "delete") ELSE s

handleDeleteUser(userId, confirmed) ==
  /\ PageCanAct
  /\ RowShown(usersPage, userId)
  /\ UserEvent(deleteUserIfConfirmed(usersPage, confirmed),
               IF confirmed THEN "deleteConfirmed" ELSE "deleteCancelled",
               userId)

\* Mutant: a successful mutation does not reload.
mutationTryNoReload(s, m) == s

\* The mutation call resolved: await loadUsers() of the captured closure.
mutationTry(s, m) == loadUsers(s, m.loadUsers, m.kind)

mutationResolves(i) ==
  /\ usersPage.phase # "init"
  /\ i \in DOMAIN usersPage.mutations
  /\ LET m == usersPage.mutations[i]
         s1 == [usersPage EXCEPT !.mutations = RemoveAt(@, i)]
         s2 == [mutationTry(s1, m) EXCEPT
                  !.out = [ev |-> "mutationResolved", alert |-> "none",
                           log |-> "none", kind |-> m.kind]]
     IN UsersStep(Render(usersPage, s2))

\* The catch blocks of handleDeleteUser, onSave and handleCreateUser.
mutationCatchLog(kind) ==
  CASE kind = "delete" -> "Error deleting user:"
    [] kind = "update" -> "Error updating user:"
    [] kind = "create" -> "Error creating user:"

mutationCatchAlert(kind) ==
  IF kind = "create" THEN "Error creating user" ELSE "none"

\* The call rejected (for create also: !response.ok, which throws).
mutationRejects(i) ==
  /\ usersPage.phase # "init"
  /\ i \in DOMAIN usersPage.mutations
  /\ LET m == usersPage.mutations[i]
         s1 == [usersPage EXCEPT !.mutations = RemoveAt(@, i)]
         s2 == [s1 EXCEPT
                  !.out = [ev |-> "mutationRejected",
                           alert |-> mutationCatchAlert(m.kind),
                           log |-> mutationCatchLog(m.kind), kind |-> m.kind]]
     IN UsersStep(Render(usersPage, s2))

\* Every step of the users page but the answers of the server to getUsers.
UsersPageNext ==
  \/ Mount
  \/ Unmount
  \/ \E page \in Pages : handlePageChange(page)
  \/ \E n \in PageSizes : handleItemsPerPageChange(n)
  \/ \E value \in Queries : handleSearch(value)
  \/ \E i \in 1..MaxInflight : DebounceTimerFires(i)
  \/ \E i \in 1..MaxInflight : getUsersRejects(i)
  \/ \E userId \in UserIds : handleEditUser(userId)
  \/ EditUserModalOnClose
  \/ EditUserModalOnSave
  \/ OpenCreateModal
  \/ CreateUserModalOnClose
  \/ handleCreateUser
  \/ \E userId \in UserIds, confirmed \in BOOLEAN : handleDeleteUser(userId, confirmed)
  \/ \E i \in 1..MaxMutations : mutationResolves(i)
  \/ \E i \in 1..MaxMutations : mutationRejects(i)

UsersNext ==
  \/ UsersPageNext
  \/ \E i \in 1..MaxInflight, response \in AllResponses :
       getUsersResolves(i, response)

(***************************************************************************)
(* CategoriesPage.                                                         *)
(***************************************************************************)
\* A category: children may be absent, empty or non-empty.
Leaf(id) == [id |-> id]
Childless(id) == [id |-> id, children |-> <<>>]
Parent(id, children) == [id |-> id, children |-> children]

\* What the server may answer to getCategories(1, 25, search).
Forests ==
  {<<>>,
   <<Parent("A", <<Childless("B"), Leaf("C")>>)>>,
   <<Parent("A", <<Parent("B", <<Leaf("D")>>), Leaf("C")>>),
     Parent("E", <<Leaf("F")>>)>>,
   <<Parent("B", <<Leaf("D")>>), Leaf("C")>>}
CategoryIds == {"A", "B", "C", "D", "E", "F"}

CategoriesPageInit ==
  [phase |-> "init",
   categories |-> <<>>,
   loading |-> TRUE,
   searchTerm |-> "",
   debouncedSearch |-> "",
   expandedCategories |-> {},
   timers |-> <<>>,
   inflight |-> <<>>,
   events |-> 0,
   burst |-> 0,
   out |-> [ev |-> "render", log |-> "none"]]

\* category.children && category.children.length > 0
HasChildren(category) ==
  "children" \in DOMAIN category /\ Len(category.children) > 0

\* Mutant: the ids of the leaves are collected too.
RECURSIVE collectIdsWithLeaves(_)
collectIdsWithLeaves(cats) ==
  UNION {{cats[i].id} \cup
         (IF HasChildren(cats[i]) THEN collectIdsWithLeaves(cats[i].children)
          ELSE {}) : i \in DOMAIN cats}

\* collectIds of expandAllCategories: the ids it adds to allIds.
RECURSIVE collectIds(_)
collectIds(cats) ==
  UNION {IF HasChildren(cats[i])
         THEN {cats[i].id} \cup collectIds(cats[i].children)
         ELSE {} : i \in DOMAIN cats}

expandAllCategories(s, categories) ==
  [s EXCEPT !.expandedCategories = collectIds(categories)]

\* Mutant: only the ids of the categories loaded now are removed.
collapseAllLoadedOnly(s) ==
  [s EXCEPT !.expandedCategories = @ \ collectIds(s.categories)]

collapseAllCategories(s) == [s EXCEPT !.expandedCategories = {}]

\* Mutant: the id is added, never deleted.
toggleExpandedAddOnly(s, categoryId) ==
  [s EXCEPT !.expandedCategories = @ \cup {categoryId}]

toggleExpanded(s, categoryId) ==
  [s EXCEPT !.expandedCategories =
     IF categoryId \in @ THEN @ \ {categoryId} ELSE @ \cup {categoryId}]

\* Tailwind's ml-6 on the row of a category below the roots.
MarginLeft6 == 6
RowMargin(level) == IF level > 0 THEN MarginLeft6 ELSE 0

\* Mutant: the children are rendered whether the parent is expanded or not.
RECURSIVE renderCategoryTreeAlwaysOpen(_, _, _)
renderCategoryTreeAlwaysOpen(categories, level, expanded) ==
  IF categories = <<>> THEN <<>>
  ELSE LET category == Head(categories)
           row == [id |-> category.id,
                   level |-> level,
                   margin |-> RowMargin(level),
                   toggle |-> HasChildren(category),
                   open |-> category.id \in expanded]
           children ==
             IF HasChildren(category)
             THEN renderCategoryTreeAlwaysOpen(category.children, level + 1,
                                               expanded)
             ELSE <<>>
       IN <<row>> \o children
            \o renderCategoryTreeAlwaysOpen(Tail(categories), level, expanded)

\* The rows renderCategoryTree produces, in document order.
RECURSIVE renderCategoryTree(_, _, _)
renderCategoryTree(categories, level, expanded) ==
  IF categories = <<>> THEN <<>>
  ELSE LET category == Head(categories)
           row == [id |-> category.id,
                   level |-> level,
                   margin |-> RowMargin(level),
                   toggle |-> HasChildren(category),
                   open |-> category.id \in expanded]
           children ==
             IF HasChildren(category) /\ category.id \in expanded
             THEN renderCategoryTree(category.children, level + 1, expanded)
             ELSE <<>>
       IN <<row>> \o children
            \o renderCategoryTree(Tail(categories), level, expanded)

\* The result section: the tree is rendered when !loading.
RenderedRows(s) ==
  IF s.loading THEN <<>>
  ELSE renderCategoryTree(s.categories, 0, s.expandedCategories)

CategoriesSetState(s, t) ==
  IF Mounted(s) THEN t ELSE [s EXCEPT !.inflight = t.inflight, !.out = t.out]

\* try { setLoading(true); await adminApi.getCategories(1, 25, search)
loadCategories(s, search) ==
  CategoriesSetState(s, [s EXCEPT !.loading = TRUE,
                                  !.inflight = Append(@, [search |-> search])])

\* The debounce effect, deps [searchTerm].
categoriesDebounceEffect(prev, s) ==
  IF prev.phase = "init" \/ s.searchTerm # prev.searchTerm
  THEN [s EXCEPT !.timers = Append(clearTimeout(@), s.searchTerm)]
  ELSE s

\* useEffect(() => { loadCategories(debouncedSearch); }, [debouncedSearch]).
loadCategoriesEffect(prev, s) ==
  IF prev.phase = "init" \/ s.debouncedSearch # prev.debouncedSearch
  THEN loadCategories(s, s.debouncedSearch)
  ELSE s

CategoriesRender(prev, s) ==
  IF Mounted(s)
  THEN loadCategoriesEffect(prev, categoriesDebounceEffect(prev, s))
  ELSE s

CategoriesEmit(s, ev, log) == [s EXCEPT !.out = [ev |-> ev, log |-> log]]

CategoriesStep(next) ==
  /\ Len(next.inflight) <= MaxInflight
  /\ categoriesPage' = next
  /\ UNCHANGED usersPage

CategoriesUserCanAct ==
  Mounted(categoriesPage) /\ categoriesPage.events < MaxCategoryEvents

CategoriesUserEvent(s, ev, arg) ==
  CategoriesStep(CategoriesRender(categoriesPage,
    [s EXCEPT !.events = @ + 1,
              !.out = [ev |-> ev, log |-> "none", arg |-> arg]]))

CategoriesMount ==
  /\ categoriesPage.phase = "init"
  /\ usersPage.phase = "init"
  /\ CategoriesStep(CategoriesRender(categoriesPage,
       CategoriesEmit([categoriesPage EXCEPT !.phase = "mounted"],
                      "mount", "none")))

CategoriesUnmount ==
  /\ Mounted(categoriesPage)
  /\ CategoriesStep(CategoriesEmit(
       [categoriesPage EXCEPT !.phase = "unmounted",
                              !.timers = clearTimeout(@)],
       "unmount", "none"))

categoriesSetSearchTerm(s, value) == [s EXCEPT !.searchTerm = value]

categoriesHandleSearch(value) ==
  /\ CategoriesUserCanAct
  /\ value # categoriesPage.searchTerm
  /\ CategoriesUserEvent(
       [categoriesSetSearchTerm(categoriesPage, value) EXCEPT !.burst = @ + 1],
       "handleSearch", value)

\* setTimeout(() => { setDebouncedSearch(searchTerm); }, 500) fires.
setDebouncedSearch(s, i) ==
  [s EXCEPT !.debouncedSearch = s.timers[i], !.timers = RemoveAt(@, i)]

CategoriesDebounceTimerFires(i) ==
  /\ i \in DOMAIN categoriesPage.timers
  /\ CategoriesStep(CategoriesRender(categoriesPage,
       [(IF Mounted(categoriesPage) THEN setDebouncedSearch(categoriesPage, i)
         ELSE [categoriesPage EXCEPT !.timers = RemoveAt(@, i)]) EXCEPT
          !.burst = 0,
          !.out = [ev |-> "debounce", log |-> "none",
                   burst |-> categoriesPage.burst]]))

\* finally { setLoading(false); }
loadCategoriesFinally(s) == [s EXCEPT !.loading = FALSE]

\* Mutant: the load drops the expanded ids that are not parents in the data.
loadCategoriesTryPruning(s, data) ==
  loadCategoriesFinally([s EXCEPT !.categories = data,
                                  !.expandedCategories = @ \cap collectIds(data)])

\* setCategories(response.data);
loadCategoriesTry(s, data) ==
  loadCategoriesFinally([s EXCEPT !.categories = data])

\* catch (error) { console.error("Error loading categories:", error); }
loadCategoriesCatch(s) == loadCategoriesFinally(s)

getCategoriesResolves(i, data) ==
  /\ categoriesPage.phase # "init"
  /\ i \in DOMAIN categoriesPage.inflight
  /\ LET s1 == [categoriesPage EXCEPT !.inflight = RemoveAt(@, i)]
         s2 == CategoriesSetState(s1, loadCategoriesTry(s1, data))
         s3 == [s2 EXCEPT !.out = [ev |-> "getCategoriesResolved",
                                   log |-> "none",
                                   data |-> IF Mounted(s1) THEN data ELSE <<>>]]
     IN CategoriesStep(CategoriesRender(categoriesPage, s3))

getCategoriesRejects(i) ==
  /\ categoriesPage.phase # "init"
  /\ i \in DOMAIN categoriesPage.inflight
  /\ LET s1 == [categoriesPage EXCEPT !.inflight = RemoveAt(@, i)]
         s2 == CategoriesSetState(s1, loadCategoriesCatch(s1))
     IN CategoriesStep(CategoriesRender(categoriesPage,
          CategoriesEmit(s2, "getCategoriesRejected",
                         "Error loading categories:")))

\* The Expand All and Collapse All buttons are always rendered.
ExpandAll ==
  /\ CategoriesUserCanAct
  /\ CategoriesUserEvent(
       expandAllCategories(categoriesPage, categoriesPage.categories),
       "expandAll", "none")

CollapseAll ==
  /\ CategoriesUserCanAct
  /\ CategoriesUserEvent(collapseAllCategories(categoriesPage), "collapseAll",
                         "none")

\* Mutant: the toggle button is rendered on every row.
ToggleShownOnEveryRow(s, categoryId) ==
  \E k \in DOMAIN RenderedRows(s) : RenderedRows(s)[k].id = categoryId

\* The toggle button is rendered on the rows that have children.
ToggleShown(s, categoryId) ==
  \E k \in DOMAIN RenderedRows(s) :
    RenderedRows(s)[k].id = categoryId /\ RenderedRows(s)[k].toggle

Toggle(categoryId) ==
  /\ CategoriesUserCanAct
  /\ ToggleShown(categoriesPage, categoryId)
  /\ CategoriesUserEvent(toggleExpanded(categoriesPage, categoryId),
                         "toggleExpanded", categoryId)

CategoriesNext ==
  \/ CategoriesMount
  \/ CategoriesUnmount
  \/ \E value \in Queries : categoriesHandleSearch(value)
  \/ \E i \in 1..MaxInflight : CategoriesDebounceTimerFires(i)
  \/ \E i \in 1..MaxInflight, data \in Forests : getCategoriesResolves(i, data)
  \/ \E i \in 1..MaxInflight : getCategoriesRejects(i)
  \/ ExpandAll
  \/ CollapseAll
  \/ \E categoryId \in CategoryIds : Toggle(categoryId)

(***************************************************************************)
(* The router shows one of the two pages.                                  *)
(***************************************************************************)
Init ==
  /\ usersPage = UsersPageInit
  /\ categoriesPage = CategoriesPageInit

Next == UsersNext \/ CategoriesNext

Spec == Init /\ [][Next]_vars

\* A pending timer fires, the oldest request in flight completes (so that
\* every request does, in whatever order) and a pending mutation call
\* completes.  The user's events carry no fairness and are finite in number.
UsersFairness ==
  /\ WF_vars(\E i \in 1..MaxInflight : DebounceTimerFires(i))
  /\ WF_vars(\/ getUsersRejects(1)
             \/ \E response \in AllResponses : getUsersResolves(1, response))
  /\ WF_vars(\E i \in 1..MaxMutations : mutationResolves(i) \/ mutationRejects(i))

CategoriesFairness ==
  /\ WF_vars(\E i \in 1..MaxInflight : CategoriesDebounceTimerFires(i))
  /\ WF_vars(\/ getCategoriesRejects(1)
             \/ \E data \in Forests : getCategoriesResolves(1, data))

FairSpec == Spec /\ UsersFairness /\ CategoriesFairness

\* The server answers request i with the page and the page size asked for.
getUsersEchoes(i, response) ==
  /\ i \in DOMAIN usersPage.inflight
  /\ response.pagination.currentPage = usersPage.inflight[i].page
  /\ getUsersResolves(i, response)

EchoNext ==
  \/ UsersPageNext
  \/ \E i \in 1..MaxInflight, response \in AllResponses :
       getUsersEchoes(i, response)
  \/ CategoriesNext

EchoFairness ==
  /\ WF_vars(\E i \in 1..MaxInflight : DebounceTimerFires(i))
  /\ WF_vars(\/ getUsersRejects(1)
             \/ \E response \in AllResponses : getUsersEchoes(1, response))
  /\ WF_vars(\E i \in 1..MaxMutations : mutationResolves(i) \/ mutationRejects(i))

\* The pages with a server that echoes the page asked for, every timer,
\* request and mutation call completing.
FairSpecEcho ==
  Init /\ [][EchoNext]_vars /\ EchoFairness /\ CategoriesFairness

(***************************************************************************)
(* Properties.                                                             *)
(***************************************************************************)
\* The step is an event of the users page (of the categories page).
UsersEvent(ev) == usersPage' # usersPage /\ usersPage'.out.ev = ev
CategoriesEvent(ev) ==
  categoriesPage' # categoriesPage /\ categoriesPage'.out.ev = ev

\* C2: when a load request completes with a failure, the items list and the
\* pagination record are what they were before that completion, and the
\* loading flag is false after it (users page and categories page).
C2_LoadFailureKeepsList ==
  [][/\ (Mounted(usersPage) /\ UsersEvent("getUsersRejected"))
          => /\ usersPage'.users = usersPage.users
             /\ usersPage'.pagination = usersPage.pagination
             /\ ~usersPage'.loading
     /\ (Mounted(categoriesPage) /\ CategoriesEvent("getCategoriesRejected"))
          => /\ categoriesPage'.categories = categoriesPage.categories
             /\ ~categoriesPage'.loading]_vars

\* A failed load found a list and a pagination loaded before it.
C2_Witness ==
  /\ Mounted(usersPage)
  /\ usersPage.out.ev = "getUsersRejected"
  /\ usersPage.users # <<>>
  /\ usersPage.pagination.totalPages > 1
  /\ ~usersPage.loading

\* C4: when a load request completes successfully, the local list is exactly
\* the data of the response and the pagination record exactly the pagination
\* of the response: nothing of the previous list or pagination survives.
C4_LoadSuccessReplaces ==
  /\ (Mounted(usersPage) /\ usersPage.out.ev = "getUsersResolved")
       => /\ usersPage.users = usersPage.out.response.data
          /\ usersPage.pagination = usersPage.out.response.pagination
  /\ (Mounted(categoriesPage)
      /\ categoriesPage.out.ev = "getCategoriesResolved")
       => categoriesPage.categories = categoriesPage.out.data

\* The reload after a delete answered with an empty list, which replaced
\* the list the deleted row was in.
C4_Witness ==
  /\ Mounted(usersPage)
  /\ usersPage.out.ev = "getUsersResolved"
  /\ usersPage.out.then = "delete"
  /\ usersPage.users = <<>>
  /\ usersPage.pagination.currentPage = 2

Last(seq) == seq[Len(seq)]

\* C5: each successful create, update or delete call is followed by a new
\* load request and the handler never patches the list; a failed mutation
\* call issues no load request.
C5_MutationReloads ==
  [][/\ UsersEvent("mutationResolved")
          => /\ Len(usersPage'.inflight) = Len(usersPage.inflight) + 1
             /\ SubSeq(usersPage'.inflight, 1, Len(usersPage.inflight))
                  = usersPage.inflight
             /\ Last(usersPage'.inflight).then = usersPage'.out.kind
             /\ usersPage'.users = usersPage.users
     /\ UsersEvent("mutationRejected")
          => /\ usersPage'.inflight = usersPage.inflight
             /\ usersPage'.users = usersPage.users
     /\ (\/ UsersEvent("deleteConfirmed")
         \/ UsersEvent("editOnSave")
         \/ UsersEvent("handleCreateUser"))
          => /\ usersPage'.users = usersPage.users
             /\ usersPage'.pagination = usersPage.pagination]_vars

\* The update call of the edit modal has resolved and its reload is in
\* flight, over the list it found.
C5_Witness ==
  /\ usersPage.out.ev = "mutationResolved"
  /\ usersPage.out.kind = "update"
  /\ usersPage.users # <<>>
  /\ usersPage.inflight # <<>>
  /\ Last(usersPage.inflight).then = "update"

DeleteCalls(s) ==
  Cardinality({i \in DOMAIN s.mutations : s.mutations[i].kind = "delete"})

\* C6: when the user cancels the confirmation, handleDeleteUser calls the
\* delete endpoint zero times and issues no load request; the delete
\* endpoint is called only by a confirmed handleDeleteUser.
C6_CancelledDeleteDoesNothing ==
  [][/\ UsersEvent("deleteCancelled")
          => /\ usersPage'.mutations = usersPage.mutations
             /\ usersPage'.inflight = usersPage.inflight
     /\ DeleteCalls(usersPage') > DeleteCalls(usersPage)
          => usersPage'.out.ev = "deleteConfirmed"]_vars

\* The user has cancelled the confirmation on a row of a loaded list.
C6_Witness ==
  /\ usersPage.out.ev = "deleteCancelled"
  /\ usersPage.out.arg \in Range(usersPage.users)
  /\ usersPage.mutations = <<>>
  /\ usersPage.inflight = <<>>

\* C9: handleItemsPerPageChange sets itemsPerPage to the given value and
\* currentPage to 1, handleSearch sets currentPage to 1, whatever the page
\* was; both leave totalPages and totalItems unchanged.
C9_PageResetTo1 ==
  [][/\ UsersEvent("handleItemsPerPageChange")
          => usersPage'.pagination =
               [usersPage.pagination EXCEPT
                  !.itemsPerPage = usersPage'.out.arg, !.currentPage = 1]
     /\ UsersEvent("handleSearch")
          => /\ usersPage'.pagination =
                  [usersPage.pagination EXCEPT !.currentPage = 1]
             /\ usersPage'.searchTerm = usersPage'.out.arg]_vars

\* The page size was changed on a list of more than one page.
C9_Witness ==
  /\ usersPage.out.ev = "handleItemsPerPageChange"
  /\ usersPage.out.arg = 50
  /\ usersPage.pagination.itemsPerPage = 50
  /\ usersPage.pagination.currentPage = 1
  /\ usersPage.pagination.totalPages = 2

\* Every node of a forest, at every depth.
RECURSIVE Nodes(_)
Nodes(cats) ==
  UNION {{cats[i]} \cup (IF "children" \in DOMAIN cats[i]
                         THEN Nodes(cats[i].children) ELSE {}) :
         i \in DOMAIN cats}

IdsWithAChild(cats) ==
  {n.id : n \in {m \in Nodes(cats) :
                   "children" \in DOMAIN m /\ m.children # <<>>}}

\* C10: after expandAll the Expansion Set is exactly the set of the ids of
\* the nodes of the loaded tree, at every depth, that have at least one
\* child: no leaf id, no id left from the previous Expansion Set.
C10_ExpandAllIsParents ==
  categoriesPage.out.ev = "expandAll"
    => categoriesPage.expandedCategories
         = IdsWithAChild(categoriesPage.categories)

\* expandAll on a tree with a parent below a parent.
C10_Witness ==
  /\ categoriesPage.out.ev = "expandAll"
  /\ categoriesPage.expandedCategories = {"A", "B", "E"}

\* The step issues no load request / exactly the load request req.
IssuesNone(s, t) == t.inflight = s.inflight
IssuesOnly(s, t, req) == t.inflight = Append(s.inflight, req)

UsersRequest(page, itemsPerPage, search) ==
  [page |-> page, itemsPerPage |-> itemsPerPage, search |-> search,
   then |-> "none"]

\* C1 as stated: a burst of N >= 1 search inputs, each before the timer of
\* the previous one fired, then the firing of the last timer, issues exactly
\* one load request, and it carries the last value entered: no input of the
\* burst issues a load request, the firing issues one.
C1_ExactlyOneLoadPerBurst ==
  [][/\ UsersEvent("handleSearch") => IssuesNone(usersPage, usersPage')
     /\ (UsersEvent("debounce") /\ usersPage.burst >= 1)
          => IssuesOnly(usersPage, usersPage',
                        UsersRequest(usersPage.pagination.currentPage,
                                     usersPage.pagination.itemsPerPage,
                                     usersPage.searchTerm))
     /\ CategoriesEvent("handleSearch")
          => IssuesNone(categoriesPage, categoriesPage')
     /\ (CategoriesEvent("debounce") /\ categoriesPage.burst >= 1)
          => IssuesOnly(categoriesPage, categoriesPage',
                        [search |-> categoriesPage.searchTerm])]_vars

\* C1 amended: the firing of the last timer of the burst issues one load
\* request carrying the last value entered when that value differs from the
\* debounced query, and none when it equals it; an input of the burst issues
\* no load request, but on the users page, when currentPage is not 1, it
\* issues one for page 1 and the debounced query as it is.
C1_OneLoadIfQueryChanged ==
  [][/\ UsersEvent("handleSearch")
          => IF usersPage.pagination.currentPage # 1
             THEN IssuesOnly(usersPage, usersPage',
                             UsersRequest(1, usersPage.pagination.itemsPerPage,
                                          usersPage.debouncedSearch))
             ELSE IssuesNone(usersPage, usersPage')
     /\ (UsersEvent("debounce") /\ usersPage.burst >= 1)
          => /\ usersPage'.debouncedSearch = usersPage.searchTerm
             /\ usersPage'.timers = <<>>
             /\ IF usersPage.searchTerm # usersPage.debouncedSearch
                THEN IssuesOnly(usersPage, usersPage',
                                UsersRequest(usersPage.pagination.currentPage,
                                             usersPage.pagination.itemsPerPage,
                                             usersPage.searchTerm))
                ELSE IssuesNone(usersPage, usersPage')
     /\ CategoriesEvent("handleSearch")
          => IssuesNone(categoriesPage, categoriesPage')
     /\ (CategoriesEvent("debounce") /\ categoriesPage.burst >= 1)
          => /\ categoriesPage'.debouncedSearch = categoriesPage.searchTerm
             /\ categoriesPage'.timers = <<>>
             /\ IF categoriesPage.searchTerm # categoriesPage.debouncedSearch
                THEN IssuesOnly(categoriesPage, categoriesPage',
                                [search |-> categoriesPage.searchTerm])
                ELSE IssuesNone(categoriesPage, categoriesPage')]_vars

\* The timer of a burst of two inputs has fired on the users page and its
\* load request, carrying the second input, is the one issued last.
C1_Witness ==
  /\ usersPage.out.ev = "debounce"
  /\ usersPage.out.burst = 2
  /\ usersPage.searchTerm = "ab"
  /\ usersPage.debouncedSearch = "ab"
  /\ usersPage.inflight # <<>>
  /\ Last(usersPage.inflight).search = "ab"

\* The step is the completion of the loadUsers call that handler `then`
\* awaited.
UsersLoadSettled(then) ==
  /\ \/ UsersEvent("getUsersResolved")
     \/ UsersEvent("getUsersRejected")
  /\ usersPage'.out.then = then

\* C7: a successful create-user submission results in exactly one load
\* request, issued for the current page, and closes the create modal.
C7_CreateReloadsCurrentPage ==
  [][/\ (UsersEvent("mutationResolved") /\ usersPage'.out.kind = "create")
          => /\ Len(usersPage'.inflight) = Len(usersPage.inflight) + 1
             /\ SubSeq(usersPage'.inflight, 1, Len(usersPage.inflight))
                  = usersPage.inflight
             /\ Last(usersPage'.inflight).page
                  = usersPage.pagination.currentPage
     /\ (Mounted(usersPage) /\ UsersLoadSettled("create"))
          => ~usersPage'.showCreateModal]_vars

\* C8: when a create, update or delete call fails, the error is shown in an
\* alert and logged, and the modal of the operation stays open; a modal is
\* closed only by its own close button or after a successful mutation.
C8_MutationFailureAlerts ==
  [][/\ UsersEvent("mutationRejected")
          => /\ usersPage'.out.alert # "none"
             /\ usersPage'.out.log # "none"
             /\ usersPage'.showCreateModal = usersPage.showCreateModal
             /\ usersPage'.showEditModal = usersPage.showEditModal
             /\ usersPage'.selectedUser = usersPage.selectedUser
     /\ (usersPage.showCreateModal /\ ~usersPage'.showCreateModal)
          => UsersEvent("createOnClose") \/ UsersLoadSettled("create")
     /\ (usersPage.showEditModal /\ ~usersPage'.showEditModal)
          => UsersEvent("editOnClose") \/ UsersLoadSettled("update")]_vars

\* C3: a load sets the loading flag before its request is issued and clears
\* it when the request completes; so, when every request completes and the
\* user has stopped (the last debounce timer has fired), the loading flag of
\* a shown page is eventually false and stays false.
C3_LoadingEventuallyStaysFalse ==
  /\ <>[]((Mounted(usersPage) /\ usersPage.timers = <<>>)
            => ~usersPage.loading)
  /\ <>[]((categoriesPage.phase = "mounted" /\ categoriesPage.timers = <<>>)
            => ~categoriesPage.loading)

\* The page with expansion set X in place of its own.
WithExpanded(X) == [categoriesPage EXCEPT !.expandedCategories = X]

\* C11: from any prior expansion set, expandAll followed at once by
\* collapseAll yields the empty set, and collapseAll alone empties the set.
C11_CollapseAllEmpties ==
  /\ \A X \in SUBSET CategoryIds :
       /\ collapseAllCategories(WithExpanded(X)).expandedCategories = {}
       /\ collapseAllCategories(
            expandAllCategories(WithExpanded(X), categoriesPage.categories)
          ).expandedCategories = {}
  /\ categoriesPage.out.ev = "collapseAll"
       => categoriesPage.expandedCategories = {}

\* Collapse All was the third click on a loaded tree with parents, and the
\* set is empty.
C11_Witness ==
  /\ categoriesPage.out.ev = "collapseAll"
  /\ categoriesPage.events = 3
  /\ collectIds(categoriesPage.categories) = {"A", "B", "E"}
  /\ categoriesPage.expandedCategories = {}

\* The set with the membership of id flipped.
Flip(X, id) == IF id \in X THEN X \ {id} ELSE X \cup {id}

\* C12: toggle(id) flips the membership of exactly that id in the expansion
\* set and leaves every other id as it was; two consecutive toggle(id)
\* restore the set held before the first.
C12_ToggleFlipsOneId ==
  /\ \A X \in SUBSET CategoryIds : \A id \in CategoryIds :
       LET once == toggleExpanded(WithExpanded(X), id)
           twice == toggleExpanded(once, id)
       IN /\ (id \in once.expandedCategories) = (id \notin X)
          /\ once.expandedCategories \ {id} = X \ {id}
          /\ twice.expandedCategories = X
  /\ [][CategoriesEvent("toggleExpanded")
          => categoriesPage'.expandedCategories
               = Flip(categoriesPage.expandedCategories,
                      categoriesPage'.out.arg)]_vars

\* The third click toggled B out of a set that held A and B: A alone is
\* left.
C12_Witness ==
  /\ categoriesPage.out.ev = "toggleExpanded"
  /\ categoriesPage.out.arg = "B"
  /\ categoriesPage.events = 3
  /\ categoriesPage.expandedCategories = {"A"}

\* The ids of the nodes without children, or with an empty children sequence.
LeafIds(cats) == {n.id : n \in {m \in Nodes(cats) : ~HasChildren(m)}}

\* C13 as stated: toggling a leaf node of the loaded tree leaves the
\* expansion set unchanged.
C13_ToggleLeafIsNoOp ==
  \A id \in LeafIds(categoriesPage.categories) :
    toggleExpanded(categoriesPage, id).expandedCategories
      = categoriesPage.expandedCategories

\* C13 amended: no toggle control is rendered on the row of a leaf, so every
\* toggle of the page is on a node with a child and none changes the set
\* through a leaf; toggleExpanded itself flips the id of a leaf like any
\* other id.
C13_NoToggleControlOnLeaf ==
  [][/\ \A k \in DOMAIN RenderedRows(categoriesPage) :
          RenderedRows(categoriesPage)[k].toggle
            = (RenderedRows(categoriesPage)[k].id
                 \notin LeafIds(categoriesPage.categories))
     /\ \A id \in LeafIds(categoriesPage.categories) :
          toggleExpanded(categoriesPage, id).expandedCategories
            = Flip(categoriesPage.expandedCategories, id)
     /\ CategoriesEvent("toggleExpanded")
          => /\ categoriesPage'.out.arg
                  \in IdsWithAChild(categoriesPage.categories)
             /\ categoriesPage'.expandedCategories
                  \cap LeafIds(categoriesPage.categories)
                  = categoriesPage.expandedCategories
                      \cap LeafIds(categoriesPage.categories)]_vars

\* A was toggled open and the rows of its leaves B and C are shown without
\* a toggle control.
C13_Witness ==
  /\ categoriesPage.out.ev = "toggleExpanded"
  /\ categoriesPage.out.arg = "A"
  /\ categoriesPage.expandedCategories = {"A"}
  /\ LeafIds(categoriesPage.categories) = {"B", "C"}
  /\ \E k \in DOMAIN RenderedRows(categoriesPage) :
       /\ RenderedRows(categoriesPage)[k].id = "B"
       /\ ~RenderedRows(categoriesPage)[k].toggle

\* The ids of the rows renderCategoryTree(categories) produces with
\* expansion set X, in document order and as a set.
RowIds(categories, X) ==
  LET rows == renderCategoryTree(categories, 0, X)
  IN [k \in DOMAIN rows |-> rows[k].id]
VisibleIds(categories, X) == Range(RowIds(categories, X))

\* The ids of the nodes below node n.
DescendantIds(n) ==
  IF HasChildren(n) THEN {m.id : m \in Nodes(n.children)} ELSE {}

ExampleTree == <<Parent("A", <<Leaf("B"), Leaf("C")>>)>>

\* C14: the children of a node are rendered exactly when the node is
\* rendered, has a child and is in the expansion set; collapsing a parent
\* hides its descendants and changes the membership of none of them, so
\* expanding it again shows the rows shown before.  For [A{children:[B,C]}]:
\* A alone, then A B C after toggle(A), A alone after collapseAll, A B C
\* after toggle(A) again.
C14_SubtreeShownIffExpanded ==
  /\ LET s0 == [categoriesPage EXCEPT !.categories = ExampleTree,
                                      !.expandedCategories = {}]
         s1 == toggleExpanded(s0, "A")
         s2 == collapseAllCategories(s1)
         s3 == toggleExpanded(s2, "A")
     IN /\ RowIds(ExampleTree, s0.expandedCategories) = <<"A">>
        /\ RowIds(ExampleTree, s1.expandedCategories) = <<"A", "B", "C">>
        /\ RowIds(ExampleTree, s2.expandedCategories) = <<"A">>
        /\ RowIds(ExampleTree, s3.expandedCategories) = <<"A", "B", "C">>
  /\ [][LET cats == categoriesPage.categories
            X == categoriesPage.expandedCategories
            shown == VisibleIds(cats, X)
        IN /\ \A k \in DOMAIN cats : cats[k].id \in shown
           /\ \A n \in Nodes(cats) :
                HasChildren(n) =>
                  \A k \in DOMAIN n.children :
                    (n.children[k].id \in shown)
                      = (n.id \in shown /\ n.id \in X)
           /\ \A n \in Nodes(cats) :
                (~HasChildren(n) /\ "children" \in DOMAIN n) =>
                  VisibleIds(cats, X \cup {n.id}) = shown
           /\ (CategoriesEvent("toggleExpanded")
                 /\ categoriesPage'.out.arg \in X)
                => LET id == categoriesPage'.out.arg
                       X1 == categoriesPage'.expandedCategories
                   IN /\ X1 \ {id} = X \ {id}
                      /\ \A n \in Nodes(cats) :
                           n.id = id =>
                             VisibleIds(cats, X1) = shown \ DescendantIds(n)
                      /\ VisibleIds(cats,
                                    toggleExpanded(categoriesPage', id)
                                      .expandedCategories) = shown]_vars

\* A was collapsed and expanded again with B left expanded: D, below B, is
\* shown again.
C14_Witness ==
  /\ categoriesPage.out.ev = "toggleExpanded"
  /\ categoriesPage.out.arg = "A"
  /\ categoriesPage.events = 3
  /\ categoriesPage.expandedCategories = {"A", "B", "E"}
  /\ RowIds(categoriesPage.categories, categoriesPage.expandedCategories)
       = <<"A", "B", "D", "C", "E", "F">>

\* C15: at most one debounce timer is pending per search field, and teardown
\* cancels it: after the page is unmounted no debounce timer fires, the
\* debounced query does not change and the only load requests issued are
\* the reloads of mutation handlers, none by the debouncer.
C15_TeardownCancelsTimer ==
  /\ [](/\ Len(usersPage.timers) <= 1
        /\ Len(categoriesPage.timers) <= 1
        /\ usersPage.phase = "unmounted" => usersPage.timers = <<>>
        /\ categoriesPage.phase = "unmounted" => categoriesPage.timers = <<>>)
  /\ [][/\ usersPage.phase = "unmounted"
             => /\ ~UsersEvent("debounce")
                /\ usersPage'.debouncedSearch = usersPage.debouncedSearch
                /\ (Len(usersPage'.inflight) <= Len(usersPage.inflight)
                      \/ UsersEvent("mutationResolved"))
        /\ categoriesPage.phase = "unmounted"
             => /\ ~CategoriesEvent("debounce")
                /\ categoriesPage'.debouncedSearch
                     = categoriesPage.debouncedSearch
                /\ Len(categoriesPage'.inflight)
                     <= Len(categoriesPage.inflight)]_vars

\* The users page was unmounted while the timer of a typed value was
\* pending: the value never became the debounced query.
C15_Witness ==
  /\ usersPage.phase = "unmounted"
  /\ usersPage.searchTerm = "ab"
  /\ usersPage.debouncedSearch = ""
  /\ usersPage.timers = <<>>
  /\ usersPage.inflight = <<>>

\* The step is the completion of a getUsers request.
UsersLoadCompletes ==
  UsersEvent("getUsersResolved") \/ UsersEvent("getUsersRejected")

\* The requests the step from s to t issued: those of t that s did not hold,
\* a completed one having left s.
Issued(s, t, completes) ==
  SubSeq(t.inflight, Len(s.inflight) + (IF completes THEN 0 ELSE 1),
         Len(t.inflight))

\* C16: on the users page a load request is issued each time the triple
\* (currentPage, itemsPerPage, debounced query) changes value, carrying the
\* new triple, and none while the triple is unchanged, other than the
\* initial load at mount and the reload after a successful mutation.
C16_LoadIffTripleChanges ==
  [][usersPage' # usersPage =>
       LET issued == Issued(usersPage, usersPage', UsersLoadCompletes)
           deps == LoadUsersDeps(usersPage')
       IN IF deps # LoadUsersDeps(usersPage) \/ UsersEvent("mount")
          THEN issued = <<UsersRequest(deps.page, deps.itemsPerPage,
                                       deps.search)>>
          ELSE IF UsersEvent("mutationResolved")
          THEN Len(issued) = 1
          ELSE issued = <<>>]_vars

\* A click on page 2 changed the triple and the request carrying it is the
\* only one in flight.
C16_Witness ==
  /\ usersPage.out.ev = "handlePageChange"
  /\ usersPage.out.arg = 2
  /\ LoadUsersDeps(usersPage) = [page |-> 2, itemsPerPage |-> 25, search |-> ""]
  /\ usersPage.inflight = <<UsersRequest(2, 25, "")>>

\* Sequence p is an initial part of sequence q.
Prefix(p, q) == Len(p) <= Len(q) /\ SubSeq(q, 1, Len(p)) = p

C18_OnlyLoaderWritesListAndPagination ==
  [][(usersPage'.users # usersPage.users
        \/ usersPage'.pagination # usersPage.pagination)
       => UsersLoadCompletes]_vars

\* C19: in every state of a shown page, if a load request has been issued
\* and has not completed, the loading flag is true.
C19_LoadingWhileInFlight ==
  /\ (Mounted(usersPage) /\ usersPage.inflight # <<>>) => usersPage.loading
  /\ (categoriesPage.phase = "mounted" /\ categoriesPage.inflight # <<>>)
       => categoriesPage.loading

\* C20: in the rendered category tree a row at depth d + 1 is indented
\* strictly more than a row at depth d, for every d >= 0.
C20_IndentationStrictlyIncreasing ==
  LET rows == renderCategoryTree(categoriesPage.categories, 0,
                                 categoriesPage.expandedCategories)
  IN \A j, k \in DOMAIN rows :
       rows[k].level = rows[j].level + 1 => rows[k].margin > rows[j].margin

\* C21: with a server that echoes the page and page size asked for and
\* every request completing, once the user has stopped (the last debounce
\* timer has fired) the users page becomes quiescent: eventually no load
\* request is in flight and none is issued any more.
C21_EventuallyQuiescent ==
  <>[](usersPage.timers = <<>> => usersPage.inflight = <<>>)

\* The step is the arrival of the response to a request in flight other
\* than the one issued last.
OlderRequestResolves ==
  /\ UsersEvent("getUsersResolved")
  /\ \E i \in 1..(Len(usersPage.inflight) - 1) :
       /\ usersPage.inflight[i] # Last(usersPage.inflight)
       /\ Prefix(RemoveAt(usersPage.inflight, i), usersPage'.inflight)

\* C22: a page or page-size selection is not reverted by the response to a
\* request issued before it: right after handlePageChange or
\* handleItemsPerPageChange has issued its request, the arrival of the
\* response to an older request leaves currentPage and itemsPerPage as
\* selected.
C22_SelectionNotReverted ==
  [][(/\ Mounted(usersPage)
      /\ usersPage.out.ev \in {"handlePageChange", "handleItemsPerPageChange"}
      /\ usersPage.inflight # <<>>
      /\ Last(usersPage.inflight)
           = UsersRequest(usersPage.pagination.currentPage,
                          usersPage.pagination.itemsPerPage,
                          usersPage.debouncedSearch)
      /\ OlderRequestResolves)
       => /\ usersPage'.pagination.currentPage
               = usersPage.pagination.currentPage
          /\ usersPage'.pagination.itemsPerPage
               = usersPage.pagination.itemsPerPage]_vars

\* C23: on the users page a search input issues no load request before its
\* debounce timer fires, whatever currentPage is at the keystroke.
C23_KeystrokeIssuesNoLoad ==
  [][UsersEvent("handleSearch")
       => Issued(usersPage, usersPage', FALSE) = <<>>]_vars

\* C24 as stated: in every state of the categories page every id in the
\* expansion set is the id of a node of the loaded tree that has a child.
C24_ExpandedAreLoadedParents ==
  categoriesPage.expandedCategories
    \subseteq IdsWithAChild(categoriesPage.categories)

\* The ids that have a child in some tree the server answers with.
EverParents == UNION {IdsWithAChild(f) : f \in Forests}

\* C24 amended: an id enters the expansion set only by a toggle of a node
\* that has a child in the tree loaded then, or by expandAll, which sets it
\* to the parents of the tree loaded then; a load leaves the set as it is,
\* so after the tree is replaced the set may hold ids that are absent from
\* the loaded tree or childless in it.
C24_ExpandedWereParentsWhenAdded ==
  /\ [](categoriesPage.expandedCategories \subseteq EverParents)
  /\ [][categoriesPage'.expandedCategories # categoriesPage.expandedCategories
          => \/ /\ CategoriesEvent("toggleExpanded")
                /\ categoriesPage'.out.arg
                     \in IdsWithAChild(categoriesPage.categories)
                /\ categoriesPage'.expandedCategories
                     = Flip(categoriesPage.expandedCategories,
                            categoriesPage'.out.arg)
             \/ /\ CategoriesEvent("expandAll")
                /\ categoriesPage'.expandedCategories
                     = IdsWithAChild(categoriesPage.categories)
             \/ /\ CategoriesEvent("collapseAll")
                /\ categoriesPage'.expandedCategories = {}]_vars

\* After Expand All on the three-level tree a new search result replaced
\* the tree: A and E are still in the set and no longer in the tree.
C24_Witness ==
  /\ categoriesPage.out.ev = "getCategoriesResolved"
  /\ categoriesPage.expandedCategories = {"A", "B", "E"}
  /\ IdsWithAChild(categoriesPage.categories) = {"B"}
  /\ categoriesPage.debouncedSearch = "a"

\* C25: the reload issued after a successful create, update or delete asks
\* for the page, page size and debounced query that are current when it is
\* issued, also when they changed while the mutation call was in flight.
C25_ReloadAsksCurrentTriple ==
  [][UsersEvent("mutationResolved")
       => \A k \in DOMAIN Issued(usersPage, usersPage', FALSE) :
            LET req == Issued(usersPage, usersPage', FALSE)[k]
            IN [page |-> req.page, itemsPerPage |-> req.itemsPerPage,
                search |-> req.search] = LoadUsersDeps(usersPage')]_vars

====
